---- MODULE Spec2Model ----
(***************************************************************************)
(* Model of the group-verification survey application (src/app/app.py).    *)
(*                                                                         *)
(* A string is a sequence of tokens; the token " " is a whitespace         *)
(* character and every other token is a run of non-whitespace characters. *)
(* A mapping (a Python dict) is a function whose domain is its key set.    *)
(* A browser session is the signed cookie that Flask reads at the start    *)
(* of a request and writes back with the response.                        *)
(***************************************************************************)
EXTENDS Integers, Sequences, FiniteSets, TLC

\* ------------------------------------------------------------------ bounds

\* Number of browser sessions (cookies) talking to the application.
NumSessions == 1

\* Number of requests the threaded server serves at the same time.
NumWorkers == 2

Sessions == 1..NumSessions
Workers == 1..NumWorkers

\* ----------------------------------------------------------------- strings

IsSpace(c) == c = " "

RECURSIVE LStrip(_)
LStrip(s) ==
    IF s = <<>> THEN s
    ELSE IF IsSpace(Head(s)) THEN LStrip(Tail(s)) ELSE s

RECURSIVE RStrip(_)
RStrip(s) ==
    IF s = <<>> THEN s
    ELSE IF IsSpace(s[Len(s)]) THEN RStrip(SubSeq(s, 1, Len(s) - 1)) ELSE s

\* str.strip(): leading and trailing whitespace removed, inner whitespace kept.
strip(s) == RStrip(LStrip(s))

\* ------------------------------------------------------------ the catalog

\* Candidate contents of reduced_diagnoses.json, as the (diagnosis, group)
\* pairs of the loaded dict in insertion order.
Datasets ==
    { <<>>,
      << <<"flu", <<"Ortho">> >>,
         <<"cold", <<"Ortho">> >> >>,
      << <<"flu", <<"Respiratory">> >>,
         <<"cold", <<"Respiratory">> >>,
         <<"fracture", <<"Ortho">> >> >> }

SetDefaultAppend_NoGrouping(gd, diagnosis, group) ==
    Append(gd, <<group, <<diagnosis>> >>)

\* grouped_data.setdefault(group, []).append(diagnosis) on an ordered dict
\* held as a sequence of (group, diagnoses) pairs.
SetDefaultAppend(gd, diagnosis, group) ==
    IF \E i \in 1..Len(gd) : gd[i][1] = group
    THEN [i \in 1..Len(gd) |->
            IF gd[i][1] = group
            THEN <<gd[i][1], Append(gd[i][2], diagnosis)>>
            ELSE gd[i]]
    ELSE Append(gd, <<group, <<diagnosis>> >>)

RECURSIVE grouped_data(_)
grouped_data(d) ==
    IF d = <<>> THEN <<>>
    ELSE SetDefaultAppend(grouped_data(SubSeq(d, 1, Len(d) - 1)),
                          d[Len(d)][1], d[Len(d)][2])

\* ------------------------------------------------------------ form inputs

\* Values of the computing_id form field (absent field = empty string).
ComputingIdInputs ==
    { <<>>, <<" ">>, <<"a">>, <<" ", "a", " ">>, <<"b">> }

\* Values of the new_group_name form field (absent field = empty string).
NewGroupNameInputs ==
    { <<>>, <<" ">>, <<"Ortho">>, <<" ", "Ortho", " ">> }

\* Values of the group_valid form field; "" stands for an absent field.
GroupValidInputs == {"yes", "no", ""}

\* ------------------------------------------------------------------ state

\* session.get('computing_id') of a session without the key.
None == <<>>

\* 'current_index' not in session.
NoIndex == -1

EmptyMap == [k \in {} |-> <<>>]

EmptySession == [computing_id |-> None, current_index |-> NoIndex]

VARIABLES
    group_list,   \* the catalog: sequence of (group name, diagnoses) pairs
    session,      \* session[s]: the cookie of browser session s
    files,        \* files[path]: the file at that path in the working directory
    response,     \* the response to the last request served
    req           \* req[r]: the request worker thread r is serving

vars == <<group_list, session, files, response, req>>

\* A file that does not exist, the file open(path, 'w') leaves behind before
\* anything is written, and the text json.dump writes for a mapping.
NoFile == [exists |-> FALSE, complete |-> FALSE, data |-> EmptyMap]
Truncated == [exists |-> TRUE, complete |-> FALSE, data |-> EmptyMap]
Dump(m) == [exists |-> TRUE, complete |-> TRUE, data |-> m]

\* What json.load returns for a well-formed document that is a list, such as
\* [], and not an object: a value that is no dict.  The model writes it as a
\* value no store can equal, since no group is named by this token.
JsonList == [k \in {<<"[]">>} |-> <<>>]
IsDict(value) == value # JsonList

\* The text of such a document.
ListText == [exists |-> TRUE, complete |-> TRUE, data |-> JsonList]

\* json.load on a file's text: a complete document parses to its value,
\* anything else raises JSONDecodeError, which the caller turns into {}.
JsonLoad(text) == IF text.complete THEN text.data ELSE EmptyMap

\* The file a relative path names once the operating system has resolved it
\* against the working directory: leading "./" components name that directory
\* again.
RECURSIVE Resolve(_)
Resolve(path) ==
    IF path # <<>> /\ Head(path) = "./" THEN Resolve(Tail(path)) ELSE path

\* The file the path of an identity's store names.
VerifiedFileOf(computing_id) ==
    Resolve(computing_id \o <<"_verified_groups.json">>)

Identities == {strip(c) : c \in ComputingIdInputs} \ {None}
Paths == {VerifiedFileOf(c) : c \in Identities}

get_verified_file(sess) ==
    IF sess.computing_id = None THEN None
    ELSE VerifiedFileOf(sess.computing_id)

load_verified_groups_Empty(fs, sess) == EmptyMap

load_verified_groups(fs, sess) ==
    LET verified_file == get_verified_file(sess) IN
    IF verified_file = None THEN EmptyMap
    ELSE IF fs[verified_file].exists
         THEN JsonLoad(fs[verified_file])
         ELSE EmptyMap

save_verified_groups(fs, sess, verified_data) ==
    LET verified_file == get_verified_file(sess) IN
    IF verified_file = None THEN fs
    ELSE [fs EXCEPT ![verified_file] = Dump(verified_data)]

SetItem_Fresh(m, k, v) == [x \in {k} |-> v]

\* verified_data[final_name] = diagnoses
SetItem(m, k, v) == [x \in DOMAIN m \cup {k} |-> IF x = k THEN v ELSE m[x]]

\* ---------------------------------------------------------------- responses

\* What a handler returns.
Redirect(endpoint) == [kind |-> "redirect", to |-> endpoint, index |-> NoIndex]
Render(template, i) == [kind |-> "render", to |-> template, index |-> i]
ServerError == [kind |-> "error", to |-> "500", index |-> NoIndex]

\* The last exchange: the route requested, the session it came from and what
\* the handler returned.
Served(route, s, result) == [route |-> route, s |-> s, result |-> result]
NoResponse == Served("", 0, [kind |-> "none", to |-> "", index |-> NoIndex])

\* A worker thread with no request, and the locals of the request it serves;
\* raw is the text its load read and replaced the text its save opened over.
IdleReq ==
    [pc |-> "idle", route |-> "", s |-> 0, sess |-> EmptySession,
     final_name |-> <<>>, diagnoses |-> <<>>, verified_data |-> EmptyMap,
     raw |-> NoFile, replaced |-> NoFile]

Init ==
    /\ group_list \in {grouped_data(d) : d \in Datasets}
    /\ session = [s \in Sessions |-> EmptySession]
    /\ files = [p \in Paths |-> NoFile]
    /\ response = NoResponse
    /\ req = [r \in Workers |-> IdleReq]

\* ------------------------------------------- handlers, one request at a time

\* The session is identified and its cursor is a catalog position.
Reviewing(sess) ==
    /\ sess.computing_id # None
    /\ 0 <= sess.current_index
    /\ sess.current_index < Len(group_list)

PostIndex_KeepCursor(s, form_computing_id) ==
    LET computing_id == strip(form_computing_id) IN
    /\ session' = IF computing_id # None
                  THEN [session EXCEPT ![s] =
                           [computing_id |-> computing_id,
                            current_index |-> IF @.current_index = NoIndex
                                              THEN 0 ELSE @.current_index]]
                  ELSE session
    /\ response' = Served("POST /", s, Redirect("index"))
    /\ UNCHANGED <<group_list, files, req>>

PostIndex_ResetStore(s, form_computing_id) ==
    LET computing_id == strip(form_computing_id) IN
    /\ session' = IF computing_id # None
                  THEN [session EXCEPT ![s] = [computing_id |-> computing_id,
                                               current_index |-> 0]]
                  ELSE session
    /\ files' = IF computing_id # None
                THEN [files EXCEPT ![VerifiedFileOf(computing_id)] = NoFile]
                ELSE files
    /\ response' = Served("POST /", s, Redirect("index"))
    /\ UNCHANGED <<group_list, req>>

PostIndex_NoEmptyCheck(s, form_computing_id) ==
    /\ session' = [session EXCEPT ![s] =
                       [computing_id |-> strip(form_computing_id),
                        current_index |-> 0]]
    /\ response' = Served("POST /", s, Redirect("index"))
    /\ UNCHANGED <<group_list, files, req>>

\* POST /
PostIndex(s, form_computing_id) ==
    LET computing_id == strip(form_computing_id) IN
    /\ session' = IF computing_id # None
                  THEN [session EXCEPT ![s] = [computing_id |-> computing_id,
                                               current_index |-> 0]]
                  ELSE session
    /\ response' = Served("POST /", s, Redirect("index"))
    /\ UNCHANGED <<group_list, files, req>>

\* The session GET / leaves behind and the response it gives.
IndexSession(sess) ==
    IF sess.computing_id # None /\ sess.current_index = NoIndex
    THEN [sess EXCEPT !.current_index = 0]
    ELSE sess

IndexResponse_Past(gl, sess) ==
    IF sess.computing_id = None THEN Render("index.html", NoIndex)
    ELSE IF IndexSession(sess).current_index > Len(gl) THEN Redirect("done")
    ELSE Render("index.html", IndexSession(sess).current_index)

IndexResponse(gl, sess) ==
    IF sess.computing_id = None THEN Render("index.html", NoIndex)
    ELSE IF IndexSession(sess).current_index >= Len(gl) THEN Redirect("done")
    ELSE Render("index.html", IndexSession(sess).current_index)

\* GET /
GetIndex(s) ==
    /\ session' = [session EXCEPT ![s] = IndexSession(session[s])]
    /\ response' = Served("GET /", s, IndexResponse(group_list, session[s]))
    /\ UNCHANGED <<group_list, files, req>>

\* session.get('current_index', 0)
CurrentIndex(sess) ==
    IF sess.current_index = NoIndex THEN 0 ELSE sess.current_index

FinalName_Swapped(new_group_name, original_group_name) ==
    IF new_group_name # <<>> THEN original_group_name ELSE new_group_name

\* final_name = new_group_name if new_group_name else original_group_name
FinalName(new_group_name, original_group_name) ==
    IF new_group_name # <<>> THEN new_group_name ELSE original_group_name

\* The name an accepted decision is stored under.
VerifyFinalName(gl, sess, form_new_group_name) ==
    FinalName(strip(form_new_group_name), gl[CurrentIndex(sess) + 1][1])

VerifyFiles_Always(fs, gl, sess, user_response, form_new_group_name) ==
    save_verified_groups(fs, sess,
        SetItem(load_verified_groups(fs, sess),
                VerifyFinalName(gl, sess, form_new_group_name),
                gl[CurrentIndex(sess) + 1][2]))

VerifyFiles_FirstGroup(fs, gl, sess, user_response, form_new_group_name) ==
    IF user_response = "yes"
    THEN save_verified_groups(fs, sess,
             SetItem(load_verified_groups(fs, sess),
                     FinalName(strip(form_new_group_name), gl[1][1]),
                     gl[1][2]))
    ELSE fs

\* The store files POST /verify leaves behind for an identified session whose
\* cursor is inside the catalog.
VerifyFiles(fs, gl, sess, user_response, form_new_group_name) ==
    LET diagnoses == gl[CurrentIndex(sess) + 1][2]
        final_name == VerifyFinalName(gl, sess, form_new_group_name)
        verified_data == load_verified_groups(fs, sess)
    IN  IF user_response = "yes"
        THEN save_verified_groups(fs, sess,
                                  SetItem(verified_data, final_name, diagnoses))
        ELSE fs

\* verified_data[final_name] = diagnoses raises TypeError when the value
\* loaded is a list; verify catches nothing, so the request ends in a 500
\* before the store is saved and before the cursor is written.
VerifyRaises(fs, sess, user_response) ==
    user_response = "yes" /\ ~IsDict(load_verified_groups(fs, sess))

VerifySession_Skip(sess) ==
    [sess EXCEPT !.current_index = CurrentIndex(sess) + 2]

VerifySession_Stay(sess) == [sess EXCEPT !.current_index = CurrentIndex(sess)]

\* session['current_index'] = current_index + 1
VerifySession(sess) == [sess EXCEPT !.current_index = CurrentIndex(sess) + 1]

Verify_NoIdentityCheck(s, user_response, form_new_group_name) ==
    LET sess == session[s] IN
    IF CurrentIndex(sess) >= Len(group_list)
    THEN /\ response' = Served("/verify", s, Redirect("done"))
         /\ UNCHANGED <<group_list, session, files, req>>
    ELSE IF VerifyRaises(files, sess, user_response)
    THEN /\ response' = Served("/verify", s, ServerError)
         /\ UNCHANGED <<group_list, session, files, req>>
    ELSE /\ files' = VerifyFiles(files, group_list, sess, user_response,
                                 form_new_group_name)
         /\ session' = [session EXCEPT ![s] = VerifySession(sess)]
         /\ response' = Served("/verify", s, Redirect("index"))
         /\ UNCHANGED <<group_list, req>>

\* POST /verify
Verify(s, user_response, form_new_group_name) ==
    LET sess == session[s] IN
    IF sess.computing_id = None
    THEN /\ response' = Served("/verify", s, Redirect("index"))
         /\ UNCHANGED <<group_list, session, files, req>>
    ELSE IF CurrentIndex(sess) >= Len(group_list)
    THEN /\ response' = Served("/verify", s, Redirect("done"))
         /\ UNCHANGED <<group_list, session, files, req>>
    ELSE IF VerifyRaises(files, sess, user_response)
    THEN /\ response' = Served("/verify", s, ServerError)
         /\ UNCHANGED <<group_list, session, files, req>>
    ELSE /\ files' = VerifyFiles(files, group_list, sess, user_response,
                                 form_new_group_name)
         /\ session' = [session EXCEPT ![s] = VerifySession(sess)]
         /\ response' = Served("/verify", s, Redirect("index"))
         /\ UNCHANGED <<group_list, req>>

\* GET /done
Done(s) ==
    /\ response' = Served("/done", s,
                          IF session[s].computing_id = None
                          THEN Redirect("index")
                          ELSE Render("done.html", NoIndex))
    /\ UNCHANGED <<group_list, session, files, req>>

\* GET /reset
Reset(s) ==
    /\ response' = Served("/reset", s, Render("reset.html", NoIndex))
    /\ UNCHANGED <<group_list, session, files, req>>

ClearFiles_Keep(fs, sess) == fs

\* The files GET /clear_data leaves behind.
ClearFiles(fs, sess) ==
    LET verified_file == get_verified_file(sess) IN
    IF verified_file # None /\ fs[verified_file].exists
    THEN [fs EXCEPT ![verified_file] = NoFile]
    ELSE fs

\* GET /clear_data
ClearData(s) ==
    /\ session' = [session EXCEPT ![s] = EmptySession]
    /\ files' = ClearFiles(files, session[s])
    /\ response' = Served("/clear_data", s, Redirect("index"))
    /\ UNCHANGED <<group_list, req>>

Next ==
    \/ \E s \in Sessions, c \in ComputingIdInputs : PostIndex(s, c)
    \/ \E s \in Sessions : GetIndex(s)
    \/ \E s \in Sessions, r \in GroupValidInputs, n \in NewGroupNameInputs :
           Verify(s, r, n)
    \/ \E s \in Sessions : Done(s)
    \/ \E s \in Sessions : Reset(s)
    \/ \E s \in Sessions : ClearData(s)

\* The application serving one request at a time.
Spec == Init /\ [][Next]_vars

\* ------------------------------------------------------- a two-group review
\* The application over a reduced_diagnoses.json that maps flu and cold to
\* Respiratory and fracture to Ortho, reviewed by a user who renames groups to
\* "Bone Issues".

E2EDatasets ==
    { << <<"flu", <<"Respiratory">> >>,
         <<"cold", <<"Respiratory">> >>,
         <<"fracture", <<"Ortho">> >> >>,
      << <<"flu", <<"Respiratory">> >>,
         <<"fracture", <<"Ortho">> >>,
         <<"cold", <<"Respiratory">> >> >> }

E2EComputingIdInputs == { <<>>, <<"a">> }

E2ENewGroupNameInputs ==
    { <<>>, <<"Bone", " ", "Issues">>, <<" ", "Bone", " ", "Issues", " ">> }

InitE2E ==
    /\ group_list \in {grouped_data(d) : d \in E2EDatasets}
    /\ session = [s \in Sessions |-> EmptySession]
    /\ files = [p \in Paths |-> NoFile]
    /\ response = NoResponse
    /\ req = [r \in Workers |-> IdleReq]

NextE2E ==
    \/ \E s \in Sessions, c \in E2EComputingIdInputs : PostIndex(s, c)
    \/ \E s \in Sessions : GetIndex(s)
    \/ \E s \in Sessions, r \in GroupValidInputs, n \in E2ENewGroupNameInputs :
           Verify(s, r, n)
    \/ \E s \in Sessions : Done(s)
    \/ \E s \in Sessions : Reset(s)
    \/ \E s \in Sessions : ClearData(s)

SpecE2E == InitE2E /\ [][NextE2E]_vars

\* ------------------------------------------------------- identities as paths
\* The application with users who may type any text as their computing id,
\* path components included.

AliasComputingIdInputs == { <<"a">>, <<"./", "a">> }

AliasIdentities == {strip(c) : c \in AliasComputingIdInputs} \ {None}

NextAlias ==
    \/ \E s \in Sessions, c \in AliasComputingIdInputs : PostIndex(s, c)
    \/ \E s \in Sessions : GetIndex(s)
    \/ \E s \in Sessions, r \in GroupValidInputs : Verify(s, r, <<>>)
    \/ \E s \in Sessions : Done(s)
    \/ \E s \in Sessions : Reset(s)
    \/ \E s \in Sessions : ClearData(s)

SpecAlias == Init /\ [][NextAlias]_vars

\* ------------------------------------------------- the store files' environment
\* The store files are plain files in the working directory: anything else with
\* access to it can rewrite one.

\* Text that is no JSON document, and a JSON document that is no object.
InvalidTexts == {Truncated, ListText}

Invalid(text) == text \in InvalidTexts

\* Something other than the application rewrites an existing store file.
Corrupt(path, text) ==
    /\ files[path].exists
    /\ files' = [files EXCEPT ![path] = text]
    /\ UNCHANGED <<group_list, session, response, req>>

NextCorrupt ==
    \/ Next
    \/ \E path \in Paths, text \in InvalidTexts : Corrupt(path, text)

\* The application serving one request at a time, over store files that can be
\* corrupted between requests.
SpecCorrupt == Init /\ [][NextCorrupt]_vars

\* POST /verify with group_valid = yes when the write of save_verified_groups
\* fails with OSError: open(verified_file, 'w') is refused and the file is as
\* it was, or the file is opened, and so emptied, and json.dump or the close
\* fails (disk full).  Neither save_verified_groups nor verify catches it, so
\* the request ends in a 500 before the cursor is written.
VerifyWriteFails(s) ==
    LET sess == session[s] IN
    /\ Reviewing(sess)
    /\ ~VerifyRaises(files, sess, "yes")
    /\ \E text \in {files[get_verified_file(sess)], Truncated} :
           files' = [files EXCEPT ![get_verified_file(sess)] = text]
    /\ response' = Served("/verify", s, ServerError)
    /\ UNCHANGED <<group_list, session, req>>

NextFault ==
    \/ NextCorrupt
    \/ \E s \in Sessions : VerifyWriteFails(s)

\* The application serving one request at a time, over store files that can be
\* corrupted between requests and whose writes can fail.
SpecFault == Init /\ [][NextFault]_vars

\* ---------------------------------------------- handlers, requests overlapping
\* The threaded server runs each request in a worker thread.  A request reads
\* the session cookie when it starts and writes it back with its response;
\* between the two, each file-system call is one step.

\* Form inputs of the overlapping requests.
ConcComputingIdInputs == { <<"a">> }
ConcNewGroupNameInputs == { <<>>, <<"Ortho">> }
ConcGroupValidInputs == {"yes", "no"}

\* The browser sessions whose requests overlap.
ConcSessions == {1}

PathOf(rq) == get_verified_file(rq.sess)

BeginVerify_Exclusive(r, s, user_response, form_new_group_name) ==
    LET sess == session[s] IN
    /\ req[r].pc = "idle"
    /\ \A w \in Workers : req[w].pc = "idle" \/ req[w].s # s
    /\ IF sess.computing_id = None
       THEN /\ response' = Served("/verify", s, Redirect("index"))
            /\ UNCHANGED <<group_list, session, files, req>>
       ELSE IF CurrentIndex(sess) >= Len(group_list)
       THEN /\ response' = Served("/verify", s, Redirect("done"))
            /\ UNCHANGED <<group_list, session, files, req>>
       ELSE /\ req' = [req EXCEPT ![r] =
                [IdleReq EXCEPT
                   !.pc = IF user_response = "yes"
                          THEN "load_exists" ELSE "respond",
                   !.route = "/verify", !.s = s, !.sess = sess,
                   !.final_name =
                       VerifyFinalName(group_list, sess, form_new_group_name),
                   !.diagnoses = group_list[CurrentIndex(sess) + 1][2]]]
            /\ UNCHANGED <<group_list, session, files, response>>

\* POST /verify up to its first file-system call.
BeginVerify(r, s, user_response, form_new_group_name) ==
    LET sess == session[s] IN
    /\ req[r].pc = "idle"
    /\ IF sess.computing_id = None
       THEN /\ response' = Served("/verify", s, Redirect("index"))
            /\ UNCHANGED <<group_list, session, files, req>>
       ELSE IF CurrentIndex(sess) >= Len(group_list)
       THEN /\ response' = Served("/verify", s, Redirect("done"))
            /\ UNCHANGED <<group_list, session, files, req>>
       ELSE /\ req' = [req EXCEPT ![r] =
                [IdleReq EXCEPT
                   !.pc = IF user_response = "yes"
                          THEN "load_exists" ELSE "respond",
                   !.route = "/verify", !.s = s, !.sess = sess,
                   !.final_name =
                       VerifyFinalName(group_list, sess, form_new_group_name),
                   !.diagnoses = group_list[CurrentIndex(sess) + 1][2]]]
            /\ UNCHANGED <<group_list, session, files, response>>

\* GET /done up to its first file-system call.
BeginDone(r, s) ==
    /\ req[r].pc = "idle"
    /\ IF session[s].computing_id = None
       THEN /\ response' = Served("/done", s, Redirect("index"))
            /\ UNCHANGED <<group_list, session, files, req>>
       ELSE /\ req' = [req EXCEPT ![r] =
                [IdleReq EXCEPT !.pc = "load_exists", !.route = "/done",
                                !.s = s, !.sess = session[s]]]
            /\ UNCHANGED <<group_list, session, files, response>>

\* GET /clear_data up to its first file-system call.
BeginClear(r, s) ==
    /\ req[r].pc = "idle"
    /\ req' = [req EXCEPT ![r] =
           [IdleReq EXCEPT
              !.pc = IF get_verified_file(session[s]) = None
                     THEN "respond" ELSE "clear_exists",
              !.route = "/clear_data", !.s = s, !.sess = session[s]]]
    /\ UNCHANGED <<group_list, session, files, response>>

\* The request once load_verified_groups has returned mapping m, read from text
\* raw: verify goes on to update and save it, done to render it.
Loaded(rq, raw, m) ==
    IF rq.route = "/verify"
    THEN [rq EXCEPT !.pc = "save_open", !.raw = raw,
                    !.verified_data = SetItem(m, rq.final_name, rq.diagnoses)]
    ELSE [rq EXCEPT !.pc = "respond", !.raw = raw, !.verified_data = m]

\* os.path.exists(verified_file) in load_verified_groups
LoadExists(r) ==
    /\ req[r].pc = "load_exists"
    /\ req' = [req EXCEPT ![r] =
           IF files[PathOf(req[r])].exists
           THEN [req[r] EXCEPT !.pc = "load_open"]
           ELSE Loaded(req[r], NoFile, EmptyMap)]
    /\ UNCHANGED <<group_list, session, files, response>>

\* open(verified_file, 'r') and json.load in load_verified_groups; a file
\* removed since the exists() call raises FileNotFoundError, which nothing
\* catches, and neither is the TypeError of verify's item assignment.
LoadOpen(r) ==
    /\ req[r].pc = "load_open"
    /\ IF /\ files[PathOf(req[r])].exists
          /\ ~(req[r].route = "/verify" /\ VerifyRaises(files, req[r].sess, "yes"))
       THEN /\ req' = [req EXCEPT ![r] =
                   Loaded(req[r], files[PathOf(req[r])],
                          JsonLoad(files[PathOf(req[r])]))]
            /\ UNCHANGED response
       ELSE /\ req' = [req EXCEPT ![r] = IdleReq]
            /\ response' = Served(req[r].route, req[r].s, ServerError)
    /\ UNCHANGED <<group_list, session, files>>

\* open(verified_file, 'w') in save_verified_groups: creates or empties the file
SaveOpen(r) ==
    /\ req[r].pc = "save_open"
    /\ files' = [files EXCEPT ![PathOf(req[r])] = Truncated]
    /\ req' = [req EXCEPT ![r].pc = "save_write",
                          ![r].replaced = files[PathOf(req[r])]]
    /\ UNCHANGED <<group_list, session, response>>

\* What the path holds after the writer's buffered text is flushed at offset 0,
\* when it held text cur just before: a file unlinked since the open stays
\* absent; text written by another writer since the open is overwritten from
\* the start and its tail survives if it is the longer one.
Flushed(cur, verified_data) ==
    IF ~cur.exists THEN {cur}
    ELSE IF cur.complete /\ cur.data # verified_data
    THEN {Dump(verified_data), Truncated}
    ELSE {Dump(verified_data)}

\* json.dump and the close of the file in save_verified_groups
SaveWrite(r) ==
    /\ req[r].pc = "save_write"
    /\ \E text \in Flushed(files[PathOf(req[r])], req[r].verified_data) :
           files' = [files EXCEPT ![PathOf(req[r])] = text]
    /\ req' = [req EXCEPT ![r].pc = "respond", ![r].replaced = NoFile]
    /\ UNCHANGED <<group_list, session, response>>

\* os.path.exists(verified_file) in clear_data
ClearExists(r) ==
    /\ req[r].pc = "clear_exists"
    /\ req' = [req EXCEPT ![r].pc = IF files[PathOf(req[r])].exists
                                    THEN "clear_remove" ELSE "respond"]
    /\ UNCHANGED <<group_list, session, files, response>>

\* os.remove(verified_file) in clear_data; FileNotFoundError if it is gone
ClearRemove(r) ==
    /\ req[r].pc = "clear_remove"
    /\ IF files[PathOf(req[r])].exists
       THEN /\ files' = [files EXCEPT ![PathOf(req[r])] = NoFile]
            /\ req' = [req EXCEPT ![r].pc = "respond"]
            /\ UNCHANGED response
       ELSE /\ req' = [req EXCEPT ![r] = IdleReq]
            /\ response' = Served(req[r].route, req[r].s, ServerError)
            /\ UNCHANGED files
    /\ UNCHANGED <<group_list, session>>

\* The response, with the session cookie the request leaves behind.
Respond(r) ==
    LET rq == req[r] IN
    /\ rq.pc = "respond"
    /\ session' = [session EXCEPT ![rq.s] =
           IF rq.route = "/verify" THEN VerifySession(rq.sess)
           ELSE IF rq.route = "/clear_data" THEN EmptySession
           ELSE @]
    /\ response' = Served(rq.route, rq.s,
                          IF rq.route = "/done"
                          THEN Render("done.html", NoIndex)
                          ELSE Redirect("index"))
    /\ req' = [req EXCEPT ![r] = IdleReq]
    /\ UNCHANGED <<group_list, files>>

NextConc ==
    \/ \E s \in ConcSessions, c \in ConcComputingIdInputs : PostIndex(s, c)
    \/ \E s \in ConcSessions : GetIndex(s)
    \/ \E r \in Workers, s \in ConcSessions, u \in ConcGroupValidInputs,
          n \in ConcNewGroupNameInputs : BeginVerify(r, s, u, n)
    \/ \E r \in Workers, s \in ConcSessions : BeginDone(r, s)
    \/ \E r \in Workers, s \in ConcSessions : BeginClear(r, s)
    \/ \E r \in Workers : LoadExists(r)
    \/ \E r \in Workers : LoadOpen(r)
    \/ \E r \in Workers : SaveOpen(r)
    \/ \E r \in Workers : SaveWrite(r)
    \/ \E r \in Workers : ClearExists(r)
    \/ \E r \in Workers : ClearRemove(r)
    \/ \E r \in Workers : Respond(r)

\* The application serving overlapping requests.
\* The catalog of the overlapping runs: Respiratory (flu, cold), Ortho (fracture).
InitConc ==
    /\ Init
    /\ Len(group_list) = 2
    /\ group_list[1][1] = <<"Respiratory">>

SpecConc == InitConc /\ [][NextConc]_vars

\* Accepted decisions of one browser session overlapping each other, as when a
\* form is submitted twice: the part of the overlapping runs in which nothing
\* is requested but POST / and POST /verify with group_valid = yes and no new
\* name.
NextRace ==
    \/ \E s \in ConcSessions, c \in ConcComputingIdInputs : PostIndex(s, c)
    \/ \E r \in Workers, s \in ConcSessions : BeginVerify(r, s, "yes", <<>>)
    \/ \E r \in Workers : LoadExists(r)
    \/ \E r \in Workers : LoadOpen(r)
    \/ \E r \in Workers : SaveOpen(r)
    \/ \E r \in Workers : SaveWrite(r)
    \/ \E r \in Workers : Respond(r)

SpecRace == InitConc /\ [][NextRace]_vars

\* ------------------------------------------------------------------ claims


\* The mapping an identity's store file holds: what parses from its text, the
\* empty mapping when there is no file.
StoreOf(fs, computing_id) ==
    IF fs[VerifiedFileOf(computing_id)].exists
    THEN JsonLoad(fs[VerifiedFileOf(computing_id)])
    ELSE EmptyMap

\* C1: a decision submitted by an identified session whose cursor i is a
\* catalog position, accepted or rejected, renamed or not, leaves the cursor at
\* exactly i + 1 and the catalog as it was.
C1_DecisionAdvancesByOne ==
    [][\A s \in Sessions, u \in GroupValidInputs, n \in NewGroupNameInputs :
          (Reviewing(session[s]) /\ Verify(s, u, n))
          => /\ session'[s].current_index = session[s].current_index + 1
             /\ session'[s].computing_id = session[s].computing_id
             /\ group_list' = group_list]_vars

\* A decision has just moved a cursor from 0 to 1 in a two-group catalog.
C1_Witness ==
    /\ Len(group_list) = 2
    /\ response.route = "/verify"
    /\ response.result = Redirect("index")
    /\ session[response.s].computing_id # None
    /\ session[response.s].current_index = 1

\* C2: accepting at cursor i with an absent, empty or whitespace-only rename
\* leaves the identity's store holding, under the catalog name of position i,
\* exactly the catalog's diagnoses of position i.
C2_AcceptUnrenamed ==
    [][\A s \in Sessions, n \in NewGroupNameInputs :
          (Reviewing(session[s]) /\ strip(n) = <<>> /\ Verify(s, "yes", n))
          => LET i == session[s].current_index
                 store == StoreOf(files', session[s].computing_id)
             IN  /\ group_list[i + 1][1] \in DOMAIN store
                 /\ store[group_list[i + 1][1]] = group_list[i + 1][2]]_vars

\* The first group of the two-group catalog is stored under its own name.
C2_Witness ==
    /\ Len(group_list) = 2
    /\ response.route = "/verify"
    /\ session[response.s].current_index = 1
    /\ LET store == StoreOf(files, session[response.s].computing_id)
       IN  /\ <<"Respiratory">> \in DOMAIN store
           /\ store[<<"Respiratory">>] = <<"flu", "cold">>

\* C3: accepting at cursor i with a rename whose trimmed value is not empty
\* stores the diagnoses of position i under the trimmed name, and every other
\* entry of the identity's store, the one under the original name included,
\* keeps its value.
C3_AcceptRenamed ==
    [][\A s \in Sessions, n \in NewGroupNameInputs :
          (Reviewing(session[s]) /\ strip(n) # <<>> /\ Verify(s, "yes", n))
          => LET i == session[s].current_index
                 old == StoreOf(files, session[s].computing_id)
                 new == StoreOf(files', session[s].computing_id)
             IN  /\ DOMAIN new = DOMAIN old \cup {strip(n)}
                 /\ new[strip(n)] = group_list[i + 1][2]
                 /\ \A k \in DOMAIN old \ {strip(n)} : new[k] = old[k]]_vars

\* The first group was stored under the name Ortho while the store kept an
\* entry under its original name Respiratory.
C3_Witness ==
    /\ Len(group_list) = 2
    /\ response.route = "/verify"
    /\ session[response.s].current_index = 1
    /\ LET store == StoreOf(files, session[response.s].computing_id)
       IN  /\ DOMAIN store = {<<"Respiratory">>, <<"Ortho">>}
           /\ store[<<"Ortho">>] = <<"flu", "cold">>
           /\ store[<<"Respiratory">>] = <<"flu", "cold">>

\* C4: a decision whose group_valid is not 'yes' leaves every store file as it
\* was.
C4_RejectKeepsStore ==
    [][\A s \in Sessions, u \in GroupValidInputs \ {"yes"},
          n \in NewGroupNameInputs :
          Verify(s, u, n) => files' = files]_vars

\* A decision advanced the only identified session to the end of a one-group
\* catalog and no store file exists: the decision was a rejection.
C4_Witness ==
    /\ Len(group_list) = 1
    /\ response.route = "/verify"
    /\ session[response.s].current_index = 1
    /\ \A s \in Sessions \ {response.s} : session[s] = EmptySession
    /\ \A p \in Paths : ~files[p].exists

\* C5 as stated: establishing a non-empty identity sets the cursor to 0 and the
\* next GET / presents catalog position 0, not the summary.
C5_IdentifyPresentsFirstGroup ==
    [][\A s \in Sessions, c \in ComputingIdInputs :
          (strip(c) # <<>> /\ PostIndex(s, c))
          => /\ session'[s] = [computing_id |-> strip(c), current_index |-> 0]
             /\ IndexResponse(group_list, session'[s]) =
                    Render("index.html", 0)]_vars

\* C5 amended: establishing a non-empty identity sets the cursor to 0; the next
\* GET / presents catalog position 0 when the catalog has a group and is routed
\* to the summary when the catalog is empty.
C5_IdentifyRestartsAtZero ==
    [][\A s \in Sessions, c \in ComputingIdInputs :
          (strip(c) # <<>> /\ PostIndex(s, c))
          => /\ session'[s] = [computing_id |-> strip(c), current_index |-> 0]
             /\ IndexResponse(group_list, session'[s]) =
                    IF Len(group_list) > 0
                    THEN Render("index.html", 0)
                    ELSE Redirect("done")]_vars

\* An identity was established again after a pass that filled its store with
\* both groups.
C5_Witness ==
    /\ Len(group_list) = 2
    /\ response.route = "POST /"
    /\ session[response.s].current_index = 0
    /\ Cardinality(DOMAIN StoreOf(files, session[response.s].computing_id)) = 2
    /\ \A s \in Sessions \ {response.s} : session[s] = EmptySession

\* C6: the cursor of an identified session is an integer between 0 and the
\* catalog length.
C6_CursorInRange ==
    \A s \in Sessions :
        session[s].computing_id # None
        => session[s].current_index \in 0..Len(group_list)

\* A session has decided every group: its cursor is the catalog length.
C6_Witness ==
    \E s \in Sessions :
        /\ session[s].computing_id # None
        /\ Len(group_list) = 2
        /\ session[s].current_index = Len(group_list)

\* C7: a key of an identity's stored mapping stays in it after every request
\* other than a clear_data of that identity, which deletes the whole mapping.
C7_StoreOnlyGrows ==
    [][\A c \in Identities :
          \/ DOMAIN StoreOf(files, c) \subseteq DOMAIN StoreOf(files', c)
          \/ /\ files'[VerifiedFileOf(c)] = NoFile
             /\ \E s \in Sessions :
                    session[s].computing_id = c /\ ClearData(s)]_vars

\* A second accepted decision added a key to a store that already held one.
C7_Witness ==
    /\ Len(group_list) = 2
    /\ response.route = "/verify"
    /\ session[response.s].current_index = 2
    /\ DOMAIN StoreOf(files, session[response.s].computing_id) =
           {<<"Respiratory">>, <<"Ortho">>}

\* C8: a reader never observes a partially written store file: the text a load
\* reads is a complete document, and a load that read the file a save has open
\* got the complete mapping the save replaces or the complete mapping it
\* writes.
C8_LoadSeesOldOrNew ==
    \A r \in Workers, w \in Workers :
        ( /\ r # w
          /\ req[w].pc = "save_write"
          /\ PathOf(req[r]) = PathOf(req[w])
          /\ req[r].raw.exists
          /\ ~req[r].raw.complete )
        => JsonLoad(req[r].raw) \in
               {JsonLoad(req[w].replaced), req[w].verified_data}

\* C9: clear_data leaves the identity's store loading as the empty mapping and
\* the session unidentified, and an identification that follows starts with the
\* cursor at 0.
C9_ClearThenLoadEmpty ==
    [][\A s \in Sessions :
          /\ ClearData(s)
             => /\ load_verified_groups(files', session[s]) = EmptyMap
                /\ session'[s] = EmptySession
          /\ \A c \in ComputingIdInputs :
                (session[s] = EmptySession /\ strip(c) # <<>>
                 /\ PostIndex(s, c))
                => session'[s].current_index = 0]_vars

\* clear_data was the last request: its session is unidentified and the store
\* of one identity is gone while the store of the other still holds an entry.
C9_Witness ==
    /\ Len(group_list) = 2
    /\ response.route = "/clear_data"
    /\ session[response.s] = EmptySession
    /\ \E c, d \in Identities :
           /\ ~files[VerifiedFileOf(c)].exists
           /\ files[VerifiedFileOf(d)].exists

\* C10: a decision submitted by a session without an identity is redirected to
\* the identification page and changes neither a cursor nor a store.
C10_DecisionNeedsIdentity ==
    [][\A s \in Sessions, u \in GroupValidInputs, n \in NewGroupNameInputs :
          (session[s].computing_id = None /\ Verify(s, u, n))
          => /\ response' = Served("/verify", s, Redirect("index"))
             /\ session' = session
             /\ files' = files]_vars

\* A decision was the last request and its session has no identity.
C10_Witness ==
    /\ response.route = "/verify"
    /\ response.result = Redirect("index")
    /\ session[response.s] = EmptySession

\* C11: whenever a decision or a summary view is served for an identity whose
\* store file holds invalid content (text that is no JSON document, or a
\* document that is not a mapping), the load yields the empty mapping and the
\* request completes normally: the response is no server error, and an
\* accepted decision leaves a store holding its entry alone.  The handlers do
\* not keep it: a store file holding the JSON list [] loads as that list, and
\* an accepted decision on it ends in a server error.
C11_InvalidStoreLoadsEmpty ==
    [][\A s \in Sessions, n \in NewGroupNameInputs :
          (/\ session[s].computing_id # None
           /\ Invalid(files[get_verified_file(session[s])]))
          => /\ Done(s) => response'.result.kind # "error"
             /\ (Reviewing(session[s]) /\ Verify(s, "yes", n))
                => /\ response'.result.kind # "error"
                   /\ StoreOf(files', session[s].computing_id)
                        = SetItem(EmptyMap,
                                  VerifyFinalName(group_list, session[s], n),
                                  group_list[session[s].current_index + 1][2])
         ]_vars

\* The session is identified and its cursor is at or past the end of the
\* catalog.
Complete(sess) ==
    sess.computing_id # None /\ CurrentIndex(sess) >= Len(group_list)

\* C12: once a session is Complete, a further decision changes neither its
\* cursor nor any store and is answered with a redirect to the summary view,
\* and GET / is answered with a redirect to the summary view as well; the
\* decision that moves the cursor to the end of the catalog leaves a session
\* which GET / routes to the summary view.
C12_CompleteIsAbsorbing ==
    [][\A s \in Sessions, u \in GroupValidInputs, n \in NewGroupNameInputs :
          /\ (Complete(session[s]) /\ Verify(s, u, n))
             => /\ session' = session
                /\ files' = files
                /\ response'.result = Redirect("done")
          /\ (Complete(session[s]) /\ GetIndex(s))
             => /\ session' = session
                /\ files' = files
                /\ response'.result = Redirect("done")
          /\ (/\ Reviewing(session[s])
              /\ Verify(s, u, n)
              /\ session'[s].current_index >= Len(group_list))
             => /\ Complete(session'[s])
                /\ IndexResponse(group_list, session'[s]) = Redirect("done")
         ]_vars

\* A decision was sent by a session past the last group of a non-empty catalog.
C12_Witness ==
    /\ response.route = "/verify"
    /\ response.result = Redirect("done")
    /\ Len(group_list) > 0
    /\ session[response.s].current_index = Len(group_list)

\* C13: with one request at a time, an identification starts the session at
\* position 0, the cursor of an identified session moves only when a decision
\* is applied and then by one position, the decision sent at cursor i is the
\* one applied to catalog position i (an accepted one stores the items of
\* group i), and the session it leaves is presented position i + 1, or is
\* Complete and routed to the summary view exactly when i + 1 is the length of
\* the catalog; a decision sent by a Complete session is applied to nothing.
C13_DecisionsInCatalogOrder ==
    [][\A s \in Sessions :
          LET i == session[s].current_index
              j == session'[s].current_index
          IN
          /\ (response'.route = "POST /" /\ j # i) => j = 0
          /\ (j # i /\ response'.route \notin {"POST /", "/clear_data"})
             => /\ response'.route = "/verify"
                /\ Reviewing(session[s])
                /\ j = i + 1
          /\ \A u \in GroupValidInputs, n \in NewGroupNameInputs :
                /\ (Reviewing(session[s]) /\ Verify(s, u, n))
                   => /\ j = i + 1
                      /\ IndexResponse(group_list, session'[s])
                           = IF i + 1 = Len(group_list)
                             THEN Redirect("done")
                             ELSE Render("index.html", i + 1)
                      /\ Complete(session'[s]) <=> i + 1 = Len(group_list)
                      /\ u = "yes"
                         => LET store == StoreOf(files', session[s].computing_id)
                                name == VerifyFinalName(group_list, session[s], n)
                            IN  /\ name \in DOMAIN store
                                /\ store[name] = group_list[i + 1][2]
                /\ (~Reviewing(session[s]) /\ Verify(s, u, n))
                   => session' = session /\ files' = files
         ]_vars

\* Both groups of a two-group catalog have been decided, in order, and the
\* second decision has left the session Complete.
C13_Witness ==
    /\ response.route = "/verify"
    /\ response.result = Redirect("index")
    /\ Len(group_list) = 2
    /\ session[response.s].current_index = 2
    /\ LET store == StoreOf(files, session[response.s].computing_id) IN
       /\ DOMAIN store = {group_list[1][1], group_list[2][1]}
       /\ store[group_list[1][1]] = group_list[1][2]
       /\ store[group_list[2][1]] = group_list[2][2]

\* C14: the catalog built from the data set is [Respiratory: flu, cold;
\* Ortho: fracture]; a session identified at cursor 0 whose identity has an
\* empty store and which accepts Respiratory without a new name is left at
\* cursor 1 with the store {Respiratory: [flu, cold]}; and when that session
\* then accepts Ortho under the new name "Bone Issues", the store is exactly
\* {Respiratory: [flu, cold], Bone Issues: [fracture]}, the cursor is 2 and
\* GET / is routed to the summary view.
C14_RespiratoryThenBoneIssues ==
    [][LET Respiratory == <<"Respiratory">>
           BoneIssues == <<"Bone", " ", "Issues">>
           first == SetItem(EmptyMap, Respiratory, <<"flu", "cold">>)
       IN
       /\ group_list = << <<Respiratory, <<"flu", "cold">> >>,
                          << <<"Ortho">>, <<"fracture">> >> >>
       /\ \A s \in Sessions, n \in E2ENewGroupNameInputs :
             LET computing_id == session[s].computing_id IN
             /\ (/\ computing_id # None
                 /\ session[s].current_index = 0
                 /\ StoreOf(files, computing_id) = EmptyMap
                 /\ Verify(s, "yes", <<>>))
                => /\ session'[s].current_index = 1
                   /\ StoreOf(files', computing_id) = first
             /\ (/\ computing_id # None
                 /\ session[s].current_index = 1
                 /\ StoreOf(files, computing_id) = first
                 /\ strip(n) = BoneIssues
                 /\ Verify(s, "yes", n))
                => /\ session'[s].current_index = 2
                   /\ StoreOf(files', computing_id)
                        = SetItem(first, BoneIssues, <<"fracture">>)
                   /\ IndexResponse(group_list, session'[s]) = Redirect("done")
      ]_vars

\* The state the two accepted decisions leave.
C14_Witness ==
    /\ response.route = "/verify"
    /\ session[response.s].current_index = 2
    /\ StoreOf(files, session[response.s].computing_id)
         = SetItem(SetItem(EmptyMap, <<"Respiratory">>, <<"flu", "cold">>),
                   <<"Bone", " ", "Issues">>, <<"fracture">>)

\* C15: establishing or re-establishing an identity through POST / leaves
\* every store file as it was, and a decision of the pass that follows keeps
\* every entry the identity's store already held: each key stays, with its
\* value, unless the decision is an accepted one stored under that very key.
C15_StoreOutlivesSession ==
    [][\A s \in Sessions :
          /\ \A c \in ComputingIdInputs : PostIndex(s, c) => files' = files
          /\ \A u \in GroupValidInputs, n \in NewGroupNameInputs :
                (Reviewing(session[s]) /\ Verify(s, u, n))
                => LET old == StoreOf(files, session[s].computing_id)
                       new == StoreOf(files', session[s].computing_id)
                   IN  \A k \in DOMAIN old :
                          /\ k \in DOMAIN new
                          /\ \/ new[k] = old[k]
                             \/ /\ u = "yes"
                                /\ k = VerifyFinalName(group_list, session[s], n)
         ]_vars

\* A later pass has decided the first group while the store still holds the
\* second group's entry, accepted in an earlier pass.
C15_Witness ==
    /\ Len(group_list) = 2
    /\ response.route = "/verify"
    /\ response.result = Redirect("index")
    /\ session[response.s].current_index = 1
    /\ LET store == StoreOf(files, session[response.s].computing_id) IN
       /\ group_list[2][1] \in DOMAIN store
       /\ store[group_list[2][1]] = group_list[2][2]

\* C16: no request ends in a raw failure: whatever goes wrong with the store
\* file while a decision or a summary view is served, the response is a
\* redirect or a page, never a server error.  The handlers do not keep it: an
\* accepted decision whose store write fails ends in a server error.
C16_NoRawFailure ==
    response.route \in {"/verify", "/done"} => response.result # ServerError

\* C17: nothing makes a request wait for another one: in every state of the
\* overlapping runs an idle worker can begin a decision for the session, also
\* while another decision of that session is between its load and its cursor
\* write, and every request under way can take its next step (the existence
\* test, the read, the open for writing, the write, the response with the
\* cursor).  The interleavings this allows include the one of the witness, in
\* which an accepted entry is missing from the store and the cursor is about
\* to advance by one for two decisions.
C17_NoRequestWaits ==
    \A r \in Workers :
        /\ req[r].pc = "idle"
           => \A s \in ConcSessions : ENABLED BeginVerify(r, s, "yes", <<>>)
        /\ req[r].pc = "load_exists" => ENABLED LoadExists(r)
        /\ req[r].pc = "load_open" => ENABLED LoadOpen(r)
        /\ req[r].pc = "save_open" => ENABLED SaveOpen(r)
        /\ req[r].pc = "save_write" => ENABLED SaveWrite(r)
        /\ req[r].pc = "respond" => ENABLED Respond(r)

\* Two accepted decisions of one session are both about to respond: the
\* cursor already is one past the position r started from, written by another
\* decision that started from the same position, so r's write will not advance
\* it; and the entry w has saved is no longer in the store file, which a
\* decision that had loaded the store earlier has since written over.
C17_Witness ==
    \E r \in Workers, w \in Workers :
        /\ r # w
        /\ req[r].pc = "respond" /\ req[r].route = "/verify"
        /\ req[w].pc = "respond" /\ req[w].route = "/verify"
        /\ req[r].s = req[w].s
        /\ req[r].sess.computing_id = req[w].sess.computing_id
        /\ session[req[r].s].current_index = req[r].sess.current_index + 1
        /\ files[PathOf(req[w])].complete
        /\ req[w].final_name
             \notin DOMAIN StoreOf(files, req[w].sess.computing_id)

\* The form value is empty or consists of whitespace only.
IsBlank(value) == \A i \in 1..Len(value) : IsSpace(value[i])

\* C18: a POST / whose computing_id is empty or whitespace only leaves every
\* session as it was, identity and cursor, and leaves every store file as it
\* was.
C18_BlankIdentityEstablishesNothing ==
    [][\A s \in Sessions, c \in ComputingIdInputs :
          (IsBlank(c) /\ PostIndex(s, c))
          => session' = session /\ files' = files]_vars

\* A blank identity was submitted by a session in the middle of its review,
\* which has kept its identity and its cursor.
C18_Witness ==
    /\ response.route = "POST /"
    /\ session[response.s].computing_id # None
    /\ session[response.s].current_index = 1
    /\ Len(group_list) = 2

\* C19: for any two distinct identities A and B, a decision, a summary view or
\* a clear_data requested by a session identified as A leaves the store file
\* of B as it was, and what a session identified as A loads does not depend
\* on what the store file of B holds.  The handlers do not keep it for
\* identities whose paths name the same file: a session identified as "./a"
\* reads, rewrites and deletes the store of "a".
C19_IdentitiesIsolated ==
    [][\A s \in Sessions, B \in AliasIdentities :
          LET A == session[s].computing_id IN
          (A # None /\ A # B)
          => /\ (\/ \E u \in GroupValidInputs, n \in NewGroupNameInputs :
                        Verify(s, u, n)
                 \/ Done(s)
                 \/ ClearData(s))
                => files'[VerifiedFileOf(B)] = files[VerifiedFileOf(B)]
             /\ \A text \in {NoFile, Dump(SetItem(EmptyMap, B, <<>>))} :
                   load_verified_groups(
                       [files EXCEPT ![VerifiedFileOf(B)] = text], session[s])
                   = load_verified_groups(files, session[s])
         ]_vars

\* The item lists of the catalog's groups.
CatalogItemLists == {group_list[i][2] : i \in 1..Len(group_list)}

\* C20: in every state each value of every identity's store is the item list
\* of a catalog group, and the entries of an identity's store are never more
\* than the accepted decisions made under that identity since its last
\* clear_data: the number of entries grows only in a step that is an accepted
\* decision of a session identified as that identity, and then by one.  The
\* handlers do not keep the second part: an accepted decision of a session
\* identified as "./a" adds an entry to the store of "a", under which no
\* decision was made.
C20_EntriesFromAcceptedDecisions ==
    [][\A c \in Identities \cup AliasIdentities :
          LET before == Cardinality(DOMAIN StoreOf(files, c))
              after == Cardinality(DOMAIN StoreOf(files', c))
          IN  /\ \A k \in DOMAIN StoreOf(files', c) :
                    StoreOf(files', c)[k] \in CatalogItemLists
              /\ \/ after <= before
                 \/ /\ after = before + 1
                    /\ \E s \in Sessions :
                           /\ session[s].computing_id = c
                           /\ Reviewing(session[s])
                           /\ response'.route = "/verify"
                           /\ response'.s = s]_vars
====
